---- MODULE Spec2Model ----
(***************************************************************************)
(* Model of app.py: the PDF daily-balance extractor (extrair_dados_pdf)   *)
(* and the Streamlit page (main) that builds the report.                  *)
(*                                                                         *)
(* A character is its Unicode code point and a text is a sequence of       *)
(* code points (the comments give the text).  Positions are 1-based.       *)
(***************************************************************************)
EXTENDS Integers, Sequences, FiniteSets, TLC

VARIABLES uploaded_files, df_resultados, lista_resultados, i, pc, botao,
          arquivo_pdf, resultados_extracao, mensagens

vars == <<uploaded_files, df_resultados, lista_resultados, i, pc, botao,
          arquivo_pdf, resultados_extracao, mensagens>>

(***************************************************************************)
(* Characters and string helpers (Python str operations).  The pattern is  *)
(* a str pattern compiled without re.ASCII, so \d, \s and re.IGNORECASE    *)
(* follow Unicode.                                                         *)
(***************************************************************************)
\* "." (line 49 and the pattern), ",", "/", " " (the pattern) and "\n"
\* (line 23).
Ponto == 46
Virgula == 44
Barra == 47
Espaco == 32
NovaLinha == 10

\* The ranges <<first, last>> of the decimal digits of Unicode: the
\* characters \d matches, "0".."9" first.
DigitRanges == {
    <<48, 57>>, <<1632, 1641>>, <<1776, 1785>>, <<1984, 1993>>, <<2406,
    2415>>, <<2534, 2543>>, <<2662, 2671>>, <<2790, 2799>>, <<2918, 2927>>,
    <<3046, 3055>>, <<3174, 3183>>, <<3302, 3311>>, <<3430, 3439>>, <<3558,
    3567>>, <<3664, 3673>>, <<3792, 3801>>, <<3872, 3881>>, <<4160, 4169>>,
    <<4240, 4249>>, <<6112, 6121>>, <<6160, 6169>>, <<6470, 6479>>, <<6608,
    6617>>, <<6784, 6793>>, <<6800, 6809>>, <<6992, 7001>>, <<7088, 7097>>,
    <<7232, 7241>>, <<7248, 7257>>, <<42528, 42537>>, <<43216, 43225>>,
    <<43264, 43273>>, <<43472, 43481>>, <<43504, 43513>>, <<43600, 43609>>,
    <<44016, 44025>>, <<65296, 65305>>, <<66720, 66729>>, <<68912, 68921>>,
    <<69734, 69743>>, <<69872, 69881>>, <<69942, 69951>>, <<70096, 70105>>,
    <<70384, 70393>>, <<70736, 70745>>, <<70864, 70873>>, <<71248, 71257>>,
    <<71360, 71369>>, <<71472, 71481>>, <<71904, 71913>>, <<72016, 72025>>,
    <<72784, 72793>>, <<73040, 73049>>, <<73120, 73129>>, <<92768, 92777>>,
    <<92864, 92873>>, <<93008, 93017>>, <<120782, 120831>>, <<123200,
    123209>>, <<123632, 123641>>, <<125264, 125273>>, <<130032, 130041>>}

Digit == UNION {r[1]..r[2] : r \in DigitRanges}

\* The characters \s matches, which are also those str.strip() strips:
\* "\t" "\n" "\v" "\f" "\r", U+001C..U+001F, " ", U+0085, U+00A0 and the
\* Unicode spaces.
WhitespaceRanges == {
    <<9, 13>>, <<28, 32>>, <<133, 133>>, <<160, 160>>, <<5760, 5760>>, <<8192,
    8202>>, <<8232, 8233>>, <<8239, 8239>>, <<8287, 8287>>, <<12288, 12288>>}

Whitespace == UNION {r[1]..r[2] : r \in WhitespaceRanges}

\* The simple lower-case mapping of Unicode, as runs <<first, last, step,
\* delta>>: the characters first, first + step, ..., last map to themselves
\* plus delta; every other character maps to itself.
LowerRuns == {
    <<65, 90, 1, 32>>, <<192, 214, 1, 32>>, <<216, 222, 1, 32>>, <<256, 302,
    2, 1>>, <<304, 304, 1, -199>>, <<306, 310, 2, 1>>, <<313, 327, 2, 1>>,
    <<330, 374, 2, 1>>, <<376, 376, 1, -121>>, <<377, 381, 2, 1>>, <<385, 385,
    1, 210>>, <<386, 388, 2, 1>>, <<390, 390, 1, 206>>, <<391, 391, 1, 1>>,
    <<393, 394, 1, 205>>, <<395, 395, 1, 1>>, <<398, 398, 1, 79>>, <<399, 399,
    1, 202>>, <<400, 400, 1, 203>>, <<401, 401, 1, 1>>, <<403, 403, 1, 205>>,
    <<404, 404, 1, 207>>, <<406, 406, 1, 211>>, <<407, 407, 1, 209>>, <<408,
    408, 1, 1>>, <<412, 412, 1, 211>>, <<413, 413, 1, 213>>, <<415, 415, 1,
    214>>, <<416, 420, 2, 1>>, <<422, 422, 1, 218>>, <<423, 423, 1, 1>>,
    <<425, 425, 1, 218>>, <<428, 428, 1, 1>>, <<430, 430, 1, 218>>, <<431,
    431, 1, 1>>, <<433, 434, 1, 217>>, <<435, 437, 2, 1>>, <<439, 439, 1,
    219>>, <<440, 440, 1, 1>>, <<444, 444, 1, 1>>, <<452, 452, 1, 2>>, <<453,
    453, 1, 1>>, <<455, 455, 1, 2>>, <<456, 456, 1, 1>>, <<458, 458, 1, 2>>,
    <<459, 475, 2, 1>>, <<478, 494, 2, 1>>, <<497, 497, 1, 2>>, <<498, 500, 2,
    1>>, <<502, 502, 1, -97>>, <<503, 503, 1, -56>>, <<504, 542, 2, 1>>,
    <<544, 544, 1, -130>>, <<546, 562, 2, 1>>, <<570, 570, 1, 10795>>, <<571,
    571, 1, 1>>, <<573, 573, 1, -163>>, <<574, 574, 1, 10792>>, <<577, 577, 1,
    1>>, <<579, 579, 1, -195>>, <<580, 580, 1, 69>>, <<581, 581, 1, 71>>,
    <<582, 590, 2, 1>>, <<880, 882, 2, 1>>, <<886, 886, 1, 1>>, <<895, 895, 1,
    116>>, <<902, 902, 1, 38>>, <<904, 906, 1, 37>>, <<908, 908, 1, 64>>,
    <<910, 911, 1, 63>>, <<913, 929, 1, 32>>, <<931, 939, 1, 32>>, <<975, 975,
    1, 8>>, <<984, 1006, 2, 1>>, <<1012, 1012, 1, -60>>, <<1015, 1015, 1, 1>>,
    <<1017, 1017, 1, -7>>, <<1018, 1018, 1, 1>>, <<1021, 1023, 1, -130>>,
    <<1024, 1039, 1, 80>>, <<1040, 1071, 1, 32>>, <<1120, 1152, 2, 1>>,
    <<1162, 1214, 2, 1>>, <<1216, 1216, 1, 15>>, <<1217, 1229, 2, 1>>, <<1232,
    1326, 2, 1>>, <<1329, 1366, 1, 48>>, <<4256, 4293, 1, 7264>>, <<4295,
    4295, 1, 7264>>, <<4301, 4301, 1, 7264>>, <<5024, 5103, 1, 38864>>,
    <<5104, 5109, 1, 8>>, <<7312, 7354, 1, -3008>>, <<7357, 7359, 1, -3008>>,
    <<7680, 7828, 2, 1>>, <<7838, 7838, 1, -7615>>, <<7840, 7934, 2, 1>>,
    <<7944, 7951, 1, -8>>, <<7960, 7965, 1, -8>>, <<7976, 7983, 1, -8>>,
    <<7992, 7999, 1, -8>>, <<8008, 8013, 1, -8>>, <<8025, 8031, 2, -8>>,
    <<8040, 8047, 1, -8>>, <<8072, 8079, 1, -8>>, <<8088, 8095, 1, -8>>,
    <<8104, 8111, 1, -8>>, <<8120, 8121, 1, -8>>, <<8122, 8123, 1, -74>>,
    <<8124, 8124, 1, -9>>, <<8136, 8139, 1, -86>>, <<8140, 8140, 1, -9>>,
    <<8152, 8153, 1, -8>>, <<8154, 8155, 1, -100>>, <<8168, 8169, 1, -8>>,
    <<8170, 8171, 1, -112>>, <<8172, 8172, 1, -7>>, <<8184, 8185, 1, -128>>,
    <<8186, 8187, 1, -126>>, <<8188, 8188, 1, -9>>, <<8486, 8486, 1, -7517>>,
    <<8490, 8490, 1, -8383>>, <<8491, 8491, 1, -8262>>, <<8498, 8498, 1, 28>>,
    <<8544, 8559, 1, 16>>, <<8579, 8579, 1, 1>>, <<9398, 9423, 1, 26>>,
    <<11264, 11311, 1, 48>>, <<11360, 11360, 1, 1>>, <<11362, 11362, 1,
    -10743>>, <<11363, 11363, 1, -3814>>, <<11364, 11364, 1, -10727>>,
    <<11367, 11371, 2, 1>>, <<11373, 11373, 1, -10780>>, <<11374, 11374, 1,
    -10749>>, <<11375, 11375, 1, -10783>>, <<11376, 11376, 1, -10782>>,
    <<11378, 11378, 1, 1>>, <<11381, 11381, 1, 1>>, <<11390, 11391, 1,
    -10815>>, <<11392, 11490, 2, 1>>, <<11499, 11501, 2, 1>>, <<11506, 11506,
    1, 1>>, <<42560, 42604, 2, 1>>, <<42624, 42650, 2, 1>>, <<42786, 42798, 2,
    1>>, <<42802, 42862, 2, 1>>, <<42873, 42875, 2, 1>>, <<42877, 42877, 1,
    -35332>>, <<42878, 42886, 2, 1>>, <<42891, 42891, 1, 1>>, <<42893, 42893,
    1, -42280>>, <<42896, 42898, 2, 1>>, <<42902, 42920, 2, 1>>, <<42922,
    42922, 1, -42308>>, <<42923, 42923, 1, -42319>>, <<42924, 42924, 1,
    -42315>>, <<42925, 42925, 1, -42305>>, <<42926, 42926, 1, -42308>>,
    <<42928, 42928, 1, -42258>>, <<42929, 42929, 1, -42282>>, <<42930, 42930,
    1, -42261>>, <<42931, 42931, 1, 928>>, <<42932, 42946, 2, 1>>, <<42948,
    42948, 1, -48>>, <<42949, 42949, 1, -42307>>, <<42950, 42950, 1, -35384>>,
    <<42951, 42953, 2, 1>>, <<42960, 42960, 1, 1>>, <<42966, 42968, 2, 1>>,
    <<42997, 42997, 1, 1>>, <<65313, 65338, 1, 32>>, <<66560, 66599, 1, 40>>,
    <<66736, 66771, 1, 40>>, <<66928, 66938, 1, 39>>, <<66940, 66954, 1, 39>>,
    <<66956, 66962, 1, 39>>, <<66964, 66965, 1, 39>>, <<68736, 68786, 1, 64>>,
    <<71840, 71871, 1, 32>>, <<93760, 93791, 1, 32>>, <<125184, 125217, 1,
    34>>}

InRun(c, r) == c >= r[1] /\ c <= r[2] /\ (c - r[1]) % r[3] = 0

\* unicode_tolower
Lower(c) ==
    LET rs == {r \in LowerRuns : InRun(c, r)}
    IN IF rs = {} THEN c ELSE c + (CHOOSE r \in rs : TRUE)[4]

\* The characters whose lower case is c.
LowersTo(c) ==
    (IF Lower(c) = c THEN {c} ELSE {})
    \cup {c - r[4] : r \in {q \in LowerRuns : InRun(c - q[4], q)}}

\* The characters re treats as case variants of a lower-case character
\* beyond those its lower-case mapping gives: <<c, variants of c>>.
ExtraCases == {
    <<105, {305}>>, <<115, {383}>>, <<181, {956}>>, <<305, {105}>>, <<383,
    {115}>>, <<837, {953, 8126}>>, <<912, {8147}>>, <<944, {8163}>>, <<946,
    {976}>>, <<949, {1013}>>, <<952, {977}>>, <<953, {837, 8126}>>, <<954,
    {1008}>>, <<956, {181}>>, <<960, {982}>>, <<961, {1009}>>, <<962, {963}>>,
    <<963, {962}>>, <<966, {981}>>, <<976, {946}>>, <<977, {952}>>, <<981,
    {966}>>, <<982, {960}>>, <<1008, {954}>>, <<1009, {961}>>, <<1013,
    {949}>>, <<1074, {7296}>>, <<1076, {7297}>>, <<1086, {7298}>>, <<1089,
    {7299}>>, <<1090, {7300, 7301}>>, <<1098, {7302}>>, <<1123, {7303}>>,
    <<7296, {1074}>>, <<7297, {1076}>>, <<7298, {1086}>>, <<7299, {1089}>>,
    <<7300, {1090, 7301}>>, <<7301, {1090, 7300}>>, <<7302, {1098}>>, <<7303,
    {1123}>>, <<7304, {42571}>>, <<7777, {7835}>>, <<7835, {7777}>>, <<8126,
    {837, 953}>>, <<8147, {912}>>, <<8163, {944}>>, <<42571, {7304}>>,
    <<64261, {64262}>>, <<64262, {64261}>>}

\* The characters a literal class matches under re.IGNORECASE: those whose
\* lower case is the lower case of a character of the class or one of its
\* extra case variants.
IgnoreCase(cls) ==
    LET lows  == {Lower(c) : c \in cls}
        fixed == lows \cup UNION {e[2] : e \in {x \in ExtraCases : x[1] \in lows}}
    IN UNION {LowersTo(f) : f \in fixed}

RECURSIVE lstrip(_)
lstrip(s) == IF s # <<>> /\ Head(s) \in Whitespace THEN lstrip(Tail(s)) ELSE s

RECURSIVE rstrip(_)
rstrip(s) ==
    IF s # <<>> /\ s[Len(s)] \in Whitespace THEN rstrip(SubSeq(s, 1, Len(s) - 1)) ELSE s

\* str.strip()
strip(s) == rstrip(lstrip(s))

\* str.replace(old, "") for a one-character old: every occurrence is deleted.
RECURSIVE replace(_, _)
replace(s, old) ==
    IF s = <<>> THEN <<>>
    ELSE IF Head(s) = old THEN replace(Tail(s), old)
         ELSE <<Head(s)>> \o replace(Tail(s), old)

(***************************************************************************)
(* The regular expression of lines 35-38 and a backtracking matcher with  *)
(* the semantics of Python's re: items are tried greedily, left to right. *)
(***************************************************************************)
\* A character class of the pattern: the characters of its categories (\d,
\* \s) and its literal characters.
Classe(cat, lits) == [cat |-> cat, lits |-> lits]
Cat(cat)   == Classe(cat, {})
Lits(lits) == Classe({}, lits)

\* One regex item: a class repeated lo..hi times (hi ignored when
\* unbounded).
Rep(classe, lo, hi) == [classe |-> classe, lo |-> lo, hi |-> hi, unbounded |-> FALSE]
One(classe)  == Rep(classe, 1, 1)
Opt(classe)  == Rep(classe, 0, 1)
Plus(classe) == [classe |-> classe, lo |-> 1, hi |-> 1, unbounded |-> TRUE]
Ch(c)        == One(Lits({c}))

\* The literal text of a pattern, one item per character.
Literal(s) == [k \in 1..Len(s) |-> Ch(s[k])]

\* (\d{2}/\d{2}/\d{2,4})
GrupoData ==
    <<Rep(Cat(Digit), 2, 2), Ch(Barra), Rep(Cat(Digit), 2, 2), Ch(Barra),
      Rep(Cat(Digit), 2, 4)>>

\* \s+\d+\s+SALDO DIA\s+[\d\.],\d{2}\s[CD]?\s+
\* (83,65,76,68,79,32,68,73,65 = "SALDO DIA"; 67, 68 = "C", "D")
AntesDoSaldo ==
    <<Plus(Cat(Whitespace)), Plus(Cat(Digit)), Plus(Cat(Whitespace))>>
    \o Literal(<<83,65,76,68,79,32,68,73,65>>)
    \o <<Plus(Cat(Whitespace)), One(Classe(Digit, {Ponto})), Ch(Virgula),
         Rep(Cat(Digit), 2, 2), One(Cat(Whitespace)), Opt(Lits({67, 68})),
         Plus(Cat(Whitespace))>>

\* ([\d\.],\d{2})
GrupoSaldo == <<One(Classe(Digit, {Ponto})), Ch(Virgula), Rep(Cat(Digit), 2, 2)>>

\* \s[CD]?
DepoisDoSaldo == <<One(Cat(Whitespace)), Opt(Lits({67, 68}))>>

\* The characters an item matches: those of its categories and its literal
\* characters, the literal ones with their case variants under
\* re.IGNORECASE.
Chars(classe, ignorecase) ==
    classe.cat \cup (IF ignorecase THEN IgnoreCase(classe.lits) ELSE classe.lits)

\* re.compile(pattern, re.IGNORECASE): the items, each with the set cls of
\* the characters it matches, and the first and last item of each capturing
\* group.
Compile(g1, mid, g2, fim, ignorecase) ==
    LET itens == g1 \o mid \o g2 \o fim
    IN [itens  |-> [k \in 1..Len(itens) |->
                       [cls       |-> Chars(itens[k].classe, ignorecase),
                        lo        |-> itens[k].lo,
                        hi        |-> itens[k].hi,
                        unbounded |-> itens[k].unbounded]],
        grupos |-> <<[de |-> 1, ate |-> Len(g1)],
                     [de |-> Len(g1) + Len(mid) + 1,
                      ate |-> Len(g1) + Len(mid) + Len(g2)]>>]

regex_saldo_dia == Compile(GrupoData, AntesDoSaldo, GrupoSaldo, DepoisDoSaldo, TRUE)

\* The number of consecutive characters of text from pos on that lie in cls,
\* at most cap.
RECURSIVE Run(_, _, _, _)
Run(text, pos, cls, cap) ==
    IF cap = 0 \/ pos > Len(text) THEN 0
    ELSE IF text[pos] \notin cls THEN 0
         ELSE 1 + Run(text, pos + 1, cls, cap - 1)

\* Match items k.. of re at pos.  The result is the sequence of positions at
\* which items k, k+1, ... start, followed by the position after the match;
\* << >> when there is no match.  TryCount backtracks from the greedy count.
RECURSIVE MatchItems(_, _, _, _), TryCount(_, _, _, _, _)
MatchItems(itens, text, k, pos) ==
    IF k > Len(itens) THEN <<pos>>
    ELSE TryCount(itens, text, k, pos,
                  Run(text, pos, itens[k].cls,
                      IF itens[k].unbounded THEN Len(text) ELSE itens[k].hi))

TryCount(itens, text, k, pos, n) ==
    IF n < itens[k].lo THEN <<>>
    ELSE LET rest == MatchItems(itens, text, k + 1, pos + n)
         IN IF rest # <<>> THEN <<pos>> \o rest
            ELSE TryCount(itens, text, k, pos, n - 1)

\* A match object: its span and the text of its groups.
MatchObject(re, text, b) ==
    [inicio |-> b[1],
     fim    |-> b[Len(b)],
     grupos |-> [g \in 1..Len(re.grupos) |->
                    SubSeq(text, b[re.grupos[g].de], b[re.grupos[g].ate + 1] - 1)]]

\* Pattern.finditer: the non-overlapping matches, scanning left to right.
RECURSIVE finditer_from(_, _, _)
finditer_from(re, text, pos) ==
    IF pos > Len(text) THEN <<>>
    ELSE LET b == MatchItems(re.itens, text, 1, pos)
         IN IF b = <<>> THEN finditer_from(re, text, pos + 1)
            ELSE <<MatchObject(re, text, b)>>
                 \o finditer_from(re, text,
                                  IF b[Len(b)] > pos THEN b[Len(b)] ELSE pos + 1)

finditer(re, text) == finditer_from(re, text, 1)

(***************************************************************************)
(* extrair_dados_pdf (lines 7-60).                                         *)
(*                                                                         *)
(* An uploaded file is [name, pages, falha]: pages are the texts that      *)
(* pagina.extract_text() returns, in page order (<< >> for a page without  *)
(* text), and falha tells where pdfplumber raises for this file: nowhere   *)
(* ("nenhuma"), in pdfplumber.open ("open") or in extract_text of page     *)
(* falha.pagina ("pagina"), with the text of the exception in falha.msg.   *)
(***************************************************************************)
SemFalha == [em |-> "nenhuma", pagina |-> 0, msg |-> <<>>]
FalhaOpen(msg) == [em |-> "open", pagina |-> 0, msg |-> msg]
FalhaPagina(k, msg) == [em |-> "pagina", pagina |-> k, msg |-> msg]

\* ErroNaLeitura = "Erro na leitura"
ErroNaLeitura == <<69,114,114,111,32,110,97,32,108,101,105,116,117,114,97>>
\* ErroAoProcessar = "Erro ao processar o arquivo: "
ErroAoProcessar ==
    <<69,114,114,111,32,97,111,32,112,114,111,99,101,115,115,97,114,32,
      111,32,97,114,113,117,105,118,111,58,32>>

\* What a call hands back: a list (tipo "list", in lista), a string (tipo
\* "str", in texto) or an exception that leaves the function (tipo "raise",
\* its text in texto), and the st.error messages shown during the call.
RetornoLista(lista) ==
    [tipo |-> "list", lista |-> lista, texto |-> <<>>, st_error |-> <<>>]
RetornoStr(texto, erros) ==
    [tipo |-> "str", lista |-> <<>>, texto |-> texto, st_error |-> erros]
Raise(e) == [tipo |-> "raise", lista |-> <<>>, texto |-> e, st_error |-> <<>>]

\* Lines 19-23: the text of the pages from page k on is appended to
\* texto_completo, each non-empty page followed by "\n"; an exception ends
\* the loop.
RECURSIVE LerPaginas(_, _, _)
LerPaginas(arquivo, k, texto_completo) ==
    IF k > Len(arquivo.pages) THEN [ok |-> TRUE, texto |-> texto_completo]
    ELSE IF arquivo.falha.em = "pagina" /\ arquivo.falha.pagina = k
         THEN [ok |-> FALSE, texto |-> arquivo.falha.msg]
         ELSE LET texto_pagina == arquivo.pages[k]
              IN LerPaginas(arquivo, k + 1,
                            IF texto_pagina # <<>>
                            THEN texto_completo \o texto_pagina \o <<NovaLinha>>
                            ELSE texto_completo)

\* Lines 14, 19-23: the outcome of reading the whole file.
LerTexto(arquivo) ==
    IF arquivo.falha.em = "open"
    THEN [ok |-> FALSE, texto |-> arquivo.falha.msg]
    ELSE LerPaginas(arquivo, 1, <<>>)

\* Fault variant of saldo_limpo: the thousands separators are not removed.
\* C10_SaldoLimpo detects it.
saldo_limpo_sem_replace(saldo_bruto) == saldo_bruto

\* Line 49: saldo_bruto.replace(".", "")
saldo_limpo(saldo_bruto) == replace(saldo_bruto, Ponto)

\* Fault variant of resultados_encontrados: each tuple is inserted at the front
\* of the list instead of appended.  C5_OrdemPreservada detects it.
resultados_encontrados_insert0(matches) ==
    [k \in 1..Len(matches) |->
        LET m == matches[Len(matches) + 1 - k]
        IN <<m.grupos[1], replace(strip(m.grupos[2]), Ponto)>>]

\* Lines 43-52: one (data, saldo_limpo) tuple per match, in match order.
resultados_encontrados(matches) ==
    [k \in 1..Len(matches) |->
        LET data        == matches[k].grupos[1]
            saldo_bruto == strip(matches[k].grupos[2])
        IN <<data, saldo_limpo(saldo_bruto)>>]

\* Lines 17-55: the body of the try statement.
TryBody(arquivo) ==
    LET lido == LerTexto(arquivo)
    IN IF ~lido.ok THEN Raise(lido.texto)
       ELSE RetornoLista(resultados_encontrados(finditer(regex_saldo_dia, lido.texto)))

\* Lines 57-60: the except clause.
ExceptHandler(e) == RetornoStr(ErroNaLeitura, <<ErroAoProcessar \o e>>)

\* Fault variant of extrair_dados_pdf: no except clause, the exception leaves
\* the function.  C4_FalhaNaoAborta detects it.
extrair_dados_pdf_sem_except(arquivo) == TryBody(arquivo)

extrair_dados_pdf(arquivo) ==
    LET corpo == TryBody(arquivo)
    IN IF corpo.tipo = "raise" THEN ExceptHandler(corpo.texto) ELSE corpo

(***************************************************************************)
(* main (lines 62-160), the function that draws the page.  Each call of    *)
(* main is one run of the page: a rerun caused by the file uploader        *)
(* (Upload) or a click on "Processar Arquivos"; a click with files runs    *)
(* the loop of lines 86-121 one file per step (pc = "loop") and ends with  *)
(* the assignment of line 123.  SpecMain is main called by a caller once   *)
(* per run; app.py run as a script does not call it (SpecScript).          *)
(***************************************************************************)
\* NA = "N/A"
NA == <<78,47,65>>
\* SaldoNaoEncontrado = "Saldo não encontrado"
SaldoNaoEncontrado ==
    <<83,97,108,100,111,32,110,227,111,32,101,110,99,111,110,116,114,97,100,111>>
\* ErroAoLerPDF = "Erro ao ler PDF"
ErroAoLerPDF == <<69,114,114,111,32,97,111,32,108,101,114,32,80,68,70>>
\* Processando = "Processando: "
Processando == <<80,114,111,99,101,115,115,97,110,100,111,58,32>>
\* Reticencias = "..."
Reticencias == <<46,46,46>>
\* AvisoSemArquivos = "Por favor, faça upload de pelo menos um arquivo PDF."
AvisoSemArquivos ==
    <<80,111,114,32,102,97,118,111,114,44,32,102,97,231,97,32,117,112,108,
      111,97,100,32,100,101,32,112,101,108,111,32,109,101,110,111,115,32,117,
      109,32,97,114,113,117,105,118,111,32,80,68,70,46>>
\* ProcessamentoConcluido = "Processamento concluído! Confira os resultados abaixo."
ProcessamentoConcluido ==
    <<80,114,111,99,101,115,115,97,109,101,110,116,111,32,99,111,110,99,108,
      117,237,100,111,33,32,67,111,110,102,105,114,97,32,111,115,32,114,101,
      115,117,108,116,97,100,111,115,32,97,98,97,105,120,111,46>>

\* A message shown by st.info, st.error, st.warning or st.success.
Msg(tipo, texto) == [tipo |-> tipo, texto |-> texto]

\* A row of the report: the dict appended to lista_resultados.
Row(arquivo, data, saldo) == [Arquivo |-> arquivo, Data |-> data, Saldo_do_Dia |-> saldo]

\* Fault variant of linhas_do_arquivo: an empty list adds no row.
\* C3_LinhasPorArquivo detects it.
linhas_do_arquivo_sem_sentinela(name, r) ==
    IF r.tipo = "list"
    THEN [k \in 1..Len(r.lista) |-> Row(name, r.lista[k][1], r.lista[k][2])]
    ELSE IF r.tipo = "str" /\ r.texto = ErroNaLeitura
         THEN <<Row(name, NA, ErroAoLerPDF)>>
         ELSE <<>>

\* Lines 94-118: the rows appended for one file, from what
\* extrair_dados_pdf returned.
linhas_do_arquivo(name, r) ==
    IF r.tipo = "list"
    THEN IF r.lista = <<>>
         THEN <<Row(name, NA, SaldoNaoEncontrado)>>
         ELSE [k \in 1..Len(r.lista) |-> Row(name, r.lista[k][1], r.lista[k][2])]
    ELSE IF r.tipo = "str" /\ r.texto = ErroNaLeitura
         THEN <<Row(name, NA, ErroAoLerPDF)>>
         ELSE <<>>

\* No file and no return value yet.
NenhumArquivo == [name |-> <<>>, pages |-> <<>>, falha |-> SemFalha]
None == [tipo |-> "none", lista |-> <<>>, texto |-> <<>>, st_error |-> <<>>]

\* The script is not running: the last run ended, normally or by an
\* exception that left main.
Parado == pc \in {"idle", "abortado"}

(***************************************************************************)
(* Inputs.                                                                 *)
(***************************************************************************)
MaxFiles == 2
MaxPaginas == 2

\* LinhaA = "01/09/25 1 SALDO DIA 0,00 C 5,00 C"
LinhaA ==
    <<48,49,47,48,57,47,50,53,32,49,32,83,65,76,68,79,32,68,73,
      65,32,48,44,48,48,32,67,32,53,44,48,48,32,67>>
\* LinhaB = "02/09/25 2 SALDO DIA 1,00 D 7,50 D"
LinhaB ==
    <<48,50,47,48,57,47,50,53,32,50,32,83,65,76,68,79,32,68,73,
      65,32,49,44,48,48,32,68,32,55,44,53,48,32,68>>
\* A line cut by a page break: its closing balance is on the next page.
\* LinhaCortada = "03/09/25 3 SALDO DIA 2,00 C"
LinhaCortada ==
    <<48,51,47,48,57,47,50,53,32,51,32,83,65,76,68,79,32,68,73,
      65,32,50,44,48,48,32,67>>
\* RestoDaLinha = "8,25 D"
RestoDaLinha == <<56,44,50,53,32,68>>
\* SemSaldo = "Extrato de conta"
SemSaldo == <<69,120,116,114,97,116,111,32,100,101,32,99,111,110,116,97>>

\* MsgNoRoot = "No /Root object"
MsgNoRoot == <<78,111,32,47,82,111,111,116,32,111,98,106,101,99,116>>
\* MsgEOF = "EOF"
MsgEOF == <<69,79,70>>

\* NomeA = "a.pdf"
NomeA == <<97,46,112,100,102>>
\* NomeB = "b.pdf"
NomeB == <<98,46,112,100,102>>
\* NomeC = "c.pdf"
NomeC == <<99,46,112,100,102>>
\* NomeD = "d.pdf"
NomeD == <<100,46,112,100,102>>

\* The files a batch is drawn from: two matches on two pages; no match; a
\* file pdfplumber cannot open; a file whose second page cannot be read; and
\* a second file named a.pdf whose only match spans a page break.
ArquivosDoLote ==
    {[name |-> NomeA, pages |-> <<LinhaA, LinhaB>>, falha |-> SemFalha],
     [name |-> NomeB, pages |-> <<SemSaldo>>, falha |-> SemFalha],
     [name |-> NomeC, pages |-> <<>>, falha |-> FalhaOpen(MsgNoRoot)],
     [name |-> NomeD, pages |-> <<LinhaA, LinhaB>>, falha |-> FalhaPagina(2, MsgEOF)],
     [name |-> NomeA, pages |-> <<<<>>, LinhaCortada, RestoDaLinha>>, falha |-> SemFalha]}

SeqsUpTo(S, n) == UNION {[1..k -> S] : k \in 0..n}

\* A batch: up to MaxFiles different files, in upload order.
Lotes ==
    {lote \in SeqsUpTo(ArquivosDoLote, MaxFiles) :
        \A a, b \in 1..Len(lote) : a # b => lote[a] # lote[b]}

\* One statement line from its tokens, joined by sep; absent tokens (<< >>)
\* are left out.
RECURSIVE Join(_, _)
Join(tokens, sep) ==
    IF tokens = <<>> THEN <<>>
    ELSE IF Head(tokens) = <<>> THEN Join(Tail(tokens), sep)
    ELSE LET resto == Join(Tail(tokens), sep)
         IN IF resto = <<>> THEN Head(tokens) ELSE Head(tokens) \o sep \o resto

Linha(d) == Join(<<d.data, d.doc, d.literal, d.valor, d.m1, d.saldo, d.m2>>, d.sep)

\* "01/09/2025", "05/09/25", "01/09/202", "01/09/20255" and, in Arabic-Indic
\* digits, "01/09/25".
Datas == {<<48,49,47,48,57,47,50,48,50,53>>,
          <<48,53,47,48,57,47,50,53>>,
          <<48,49,47,48,57,47,50,48,50>>,
          <<48,49,47,48,57,47,50,48,50,53,53>>,
          <<1632,1633,47,1632,1641,47,1634,1637>>}
\* "123", "45"
Docs == {<<49,50,51>>, <<52,53>>}
\* "SALDO DIA", "saldo dia" and "SALDO DIA" written with U+017F (long s) for
\* its S and U+0131 (dotless i) for its I.
Literais == {<<83,65,76,68,79,32,68,73,65>>,
             <<115,97,108,100,111,32,100,105,97>>,
             <<383,65,76,68,79,32,68,305,65>>}
\* "0,00", "1.200,50"
Valores == {<<48,44,48,48>>, <<49,46,50,48,48,44,53,48>>}
\* "5,00", ".,50", "15.043,90", "9.876,00"
Saldos == {<<53,44,48,48>>, <<46,44,53,48>>,
           <<49,53,46,48,52,51,44,57,48>>,
           <<57,46,56,55,54,44,48,48>>}
\* no marker, "C", "D"
Marcadores == {<<>>, <<67>>, <<68>>}
\* one space, two spaces, one NO-BREAK SPACE (U+00A0)
Separadores == {<<Espaco>>, <<Espaco, Espaco>>, <<160>>}

Descricoes ==
    [data : Datas, doc : Docs, literal : Literais, valor : Valores,
     m1 : Marcadores, saldo : Saldos, m2 : Marcadores, sep : Separadores]

\* NomeExtrato = "e.pdf"
NomeExtrato == <<101,46,112,100,102>>

\* A one-page file holding one line.
ArquivoDaLinha(d) == [name |-> NomeExtrato, pages |-> <<Linha(d)>>, falha |-> SemFalha]

PaginasDeTeste == {<<>>, LinhaA, LinhaB, LinhaCortada, RestoDaLinha, SemSaldo}

Falhas(pages) ==
    {SemFalha, FalhaOpen(MsgNoRoot)} \cup {FalhaPagina(k, MsgEOF) : k \in 1..Len(pages)}

\* The files extrair_dados_pdf is applied to on its own: every one-line file,
\* and the files of up to MaxPaginas pages, readable or not.
ArquivosDeTeste ==
    {ArquivoDaLinha(d) : d \in Descricoes}
    \cup UNION {{[name |-> NomeExtrato, pages |-> ps, falha |-> f] : f \in Falhas(ps)} :
                  ps \in SeqsUpTo(PaginasDeTeste, MaxPaginas)}

(***************************************************************************)
(* The page drawn by main: SpecMain.                                       *)
(***************************************************************************)
\* Lines 75-76: st.session_state before the first call holds no report; the
\* first call stores the empty one.
Init ==
    /\ uploaded_files = <<>>
    /\ df_resultados = <<>>
    /\ lista_resultados = <<>>
    /\ i = 0
    /\ pc = "idle"
    /\ botao = FALSE
    /\ arquivo_pdf = NenhumArquivo
    /\ resultados_extracao = None
    /\ mensagens = <<>>

\* Lines 68-76, 78: the uploader changes; the script reruns with the button
\* not clicked.
Upload(lote) ==
    /\ Parado
    /\ uploaded_files' = lote
    /\ botao' = FALSE
    /\ pc' = "idle"
    /\ mensagens' = <<>>
    /\ UNCHANGED <<df_resultados, lista_resultados, i, arquivo_pdf, resultados_extracao>>

\* Fault variant of ProcessarSemArquivos: the report is assigned the (empty)
\* list of rows even when no file was uploaded.  C6_LoteVazio detects it.
ProcessarSemArquivos_atribui ==
    /\ Parado
    /\ uploaded_files = <<>>
    /\ botao' = TRUE
    /\ pc' = "idle"
    /\ df_resultados' = <<>>
    /\ mensagens' = <<Msg("warning", AvisoSemArquivos)>>
    /\ UNCHANGED <<uploaded_files, lista_resultados, i, arquivo_pdf, resultados_extracao>>

\* Lines 78-79, 126-127: a click with no file uploaded.
ProcessarSemArquivos ==
    /\ Parado
    /\ uploaded_files = <<>>
    /\ botao' = TRUE
    /\ pc' = "idle"
    /\ mensagens' = <<Msg("warning", AvisoSemArquivos)>>
    /\ UNCHANGED <<uploaded_files, df_resultados, lista_resultados, i,
                   arquivo_pdf, resultados_extracao>>

\* Lines 78-84: a click with files uploaded starts the loop.
IniciarProcessamento ==
    /\ Parado
    /\ uploaded_files # <<>>
    /\ botao' = TRUE
    /\ lista_resultados' = <<>>
    /\ i' = 0
    /\ pc' = "loop"
    /\ mensagens' = <<>>
    /\ UNCHANGED <<uploaded_files, df_resultados, arquivo_pdf, resultados_extracao>>

\* Lines 86-121: one iteration of the loop.  An exception that leaves
\* extrair_dados_pdf leaves main too: nothing in main catches it.
ProcessarArquivo ==
    /\ pc = "loop"
    /\ i < Len(uploaded_files)
    /\ LET file == uploaded_files[i + 1]
           r    == extrair_dados_pdf(file)
           info == Msg("info", Processando \o file.name \o Reticencias)
       IN /\ arquivo_pdf' = file
          /\ resultados_extracao' = r
          /\ mensagens' = mensagens \o <<info>>
                          \o [k \in 1..Len(r.st_error) |-> Msg("error", r.st_error[k])]
          /\ IF r.tipo = "raise"
             THEN /\ pc' = "abortado"
                  /\ UNCHANGED <<lista_resultados, i>>
             ELSE /\ lista_resultados' = lista_resultados \o linhas_do_arquivo(file.name, r)
                  /\ i' = i + 1
                  /\ pc' = "loop"
    /\ UNCHANGED <<uploaded_files, df_resultados, botao>>

\* Fault variant of Concluir: the new rows are appended to the stored report.
\* C7_RelatorioSubstituido detects it.
Concluir_acumula ==
    /\ pc = "loop"
    /\ i = Len(uploaded_files)
    /\ df_resultados' = df_resultados \o lista_resultados
    /\ mensagens' = mensagens \o <<Msg("success", ProcessamentoConcluido)>>
    /\ pc' = "idle"
    /\ lista_resultados' = <<>>
    /\ i' = 0
    /\ arquivo_pdf' = NenhumArquivo
    /\ resultados_extracao' = None
    /\ UNCHANGED <<uploaded_files, botao>>

\* Lines 123-124: the loop is over; the report is replaced.
Concluir ==
    /\ pc = "loop"
    /\ i = Len(uploaded_files)
    /\ df_resultados' = lista_resultados
    /\ mensagens' = mensagens \o <<Msg("success", ProcessamentoConcluido)>>
    /\ pc' = "idle"
    /\ lista_resultados' = <<>>
    /\ i' = 0
    /\ arquivo_pdf' = NenhumArquivo
    /\ resultados_extracao' = None
    /\ UNCHANGED <<uploaded_files, botao>>

NextMain ==
    \/ \E lote \in Lotes : Upload(lote)
    \/ ProcessarSemArquivos
    \/ IniciarProcessamento
    \/ ProcessarArquivo
    \/ Concluir

SpecMain == Init /\ [][NextMain]_vars

(***************************************************************************)
(* app.py run as a script (streamlit run app.py): SpecScript.  Lines 1-60  *)
(* and 62-160 import the libraries and define the two functions; line 162  *)
(* then tests _name_ == "_main_", and _name_ (with single underscores) is  *)
(* not a name of the module: NameError.  main() of line 163 is not called: *)
(* nothing is drawn, no file can be uploaded and no report is stored.      *)
(***************************************************************************)
\* MsgNameError = "name '_name_' is not defined"
MsgNameError ==
    <<110,97,109,101,32,39,95,110,97,109,101,95,39,32,105,115,32,110,111,116,32,
      100,101,102,105,110,101,100>>

\* Lines 1-163: one run of the script.
ExecutarScript ==
    /\ Parado
    /\ pc' = "abortado"
    /\ mensagens' = <<Msg("exception", MsgNameError)>>
    /\ UNCHANGED <<uploaded_files, df_resultados, lista_resultados, i, botao,
                   arquivo_pdf, resultados_extracao>>

NextScript == ExecutarScript

SpecScript == Init /\ [][NextScript]_vars

(***************************************************************************)
(* extrair_dados_pdf on its own: SpecExtrair applies it once to a file      *)
(* drawn from ArquivosDeTeste.                                             *)
(***************************************************************************)
InitExtrair ==
    /\ arquivo_pdf \in ArquivosDeTeste
    /\ pc = "chamada"
    /\ resultados_extracao = None
    /\ mensagens = <<>>
    /\ uploaded_files = <<>>
    /\ df_resultados = <<>>
    /\ lista_resultados = <<>>
    /\ i = 0
    /\ botao = FALSE

\* Line 91: resultados_extracao = extrair_dados_pdf(file)
ChamarExtrair ==
    /\ pc = "chamada"
    /\ LET r == extrair_dados_pdf(arquivo_pdf)
       IN /\ resultados_extracao' = r
          /\ mensagens' = [k \in 1..Len(r.st_error) |-> Msg("error", r.st_error[k])]
    /\ pc' = "retornou"
    /\ UNCHANGED <<arquivo_pdf, uploaded_files, df_resultados, lista_resultados, i, botao>>

NextExtrair == ChamarExtrair

SpecExtrair == InitExtrair /\ [][NextExtrair]_vars

(***************************************************************************)
(* Properties of extrair_dados_pdf, checked under SpecExtrair.             *)
(***************************************************************************)
\* sub occurs in s starting at position p.
OccursAt(sub, s, p) ==
    /\ p >= 1
    /\ p + Len(sub) - 1 <= Len(s)
    /\ SubSeq(s, p, p + Len(sub) - 1) = sub

\* sub is a substring of s.
Contains(s, sub) == \E p \in 1..(Len(s) + 1) : OccursAt(sub, s, p)

\* Reading the file raises.
Falha(file) == file.falha.em # "nenhuma"

\* The call returned a list.
RetornouLista == pc = "retornou" /\ resultados_extracao.tipo = "list"

\* The file holds exactly the one line described by d and can be read.
EhALinha(d) == arquivo_pdf.falha = SemFalha /\ arquivo_pdf.pages = <<Linha(d)>>

\* "01/09/2025 123 SALDO DIA 0,00 C 15.043,90 C"
Cenario1 ==
    [data |-> <<48,49,47,48,57,47,50,48,50,53>>, doc |-> <<49,50,51>>,
     literal |-> <<83,65,76,68,79,32,68,73,65>>,
     valor |-> <<48,44,48,48>>, m1 |-> <<67>>,
     saldo |-> <<49,53,46,48,52,51,44,57,48>>, m2 |-> <<67>>,
     sep |-> <<32>>]

\* C1: amounts may have one or more digit/'.' characters before the ',': the
\* file whose text is the line of scenario 1 yields exactly the list
\* [("01/09/2025", "15043,90")].
C1_Cenario1 ==
    (pc = "retornou" /\ EhALinha(Cenario1))
        => /\ resultados_extracao.tipo = "list"
           /\ resultados_extracao.lista =
                  << <<Cenario1.data, <<49,53,48,52,51,44,57,48>> >> >>   \* "15043,90"

\* A date of the form DD/MM/YY or DD/MM/YYYY.
EhData(s) ==
    /\ Len(s) \in {8, 10}
    /\ \A k \in 1..Len(s) : IF k \in {3, 6} THEN s[k] = Barra ELSE s[k] \in Digit

\* The well-formed one-line descriptions whose tokens are one whitespace
\* character apart, without their markers.
LinhasBemFormadas ==
    {d \in Descricoes : Len(d.sep) = 1 /\ EhData(d.data) /\ d.m1 = <<>> /\ d.m2 = <<>>}

ComMarcadores(d, m1, m2) == [d EXCEPT !.m1 = m1, !.m2 = m2]

\* C2: both credit/debit markers are optional: a well-formed line whose
\* tokens are one whitespace character apart yields the same records with or
\* without a marker after the transaction amount and with or without one
\* after the closing balance.
C2_MarcadoresOpcionais ==
    \A d \in LinhasBemFormadas : \A m1 \in Marcadores, m2 \in Marcadores :
        (pc = "retornou" /\ EhALinha(ComMarcadores(d, m1, m2)))
            => resultados_extracao.lista =
                   extrair_dados_pdf(ArquivoDaLinha(ComMarcadores(d, <<67>>, <<67>>))).lista
                   \* <<67>> = "C"

\* The text of the file of the call (the call returned a list, so it was read).
TextoDoArquivo == LerTexto(arquivo_pdf).texto

\* C9: every date emitted is a verbatim substring of the document text, of
\* the form two digits, '/', two digits, '/', and a year of exactly 2 or
\* exactly 4 digits; a date with a 3-digit year yields no record.
C9_FormatoDaData ==
    RetornouLista =>
        \A k \in 1..Len(resultados_extracao.lista) :
            LET data == resultados_extracao.lista[k][1]
            IN EhData(data) /\ Contains(TextoDoArquivo, data)

\* limpo is bruto with '.' characters deleted and nothing else changed.
RECURSIVE SoPontosRemovidos(_, _)
SoPontosRemovidos(bruto, limpo) ==
    IF bruto = <<>> THEN limpo = <<>>
    ELSE IF bruto[1] = Ponto THEN SoPontosRemovidos(Tail(bruto), limpo)
    ELSE /\ limpo # <<>>
         /\ limpo[1] = bruto[1]
         /\ SoPontosRemovidos(Tail(bruto), Tail(limpo))

\* C10: the balance of every emitted record has no '.' and is the captured
\* closing-balance token with only its '.' characters deleted.
C10_SaldoLimpo ==
    RetornouLista =>
        LET matches == finditer(regex_saldo_dia, TextoDoArquivo)
            lista   == resultados_extracao.lista
        IN /\ Len(lista) = Len(matches)
           /\ \A k \in 1..Len(lista) :
                 /\ \A j \in 1..Len(lista[k][2]) : lista[k][2][j] # Ponto
                 /\ SoPontosRemovidos(matches[k].grupos[2], lista[k][2])

\* A record whose captured balance token had a '.' to delete: ",50" from
\* ".,50".
C10_Witness ==
    /\ RetornouLista
    /\ Len(resultados_extracao.lista) = 1
    /\ resultados_extracao.lista[1][2] = <<44,53,48>>
    /\ Contains(TextoDoArquivo, <<46,44,53,48>>)

\* C8: the error message extrair_dados_pdf shows for a file whose read failed
\* contains the name of that file.
C8_ErroNomeiaArquivo ==
    (pc = "retornou" /\ Falha(arquivo_pdf)) =>
        /\ mensagens # <<>>
        /\ \A k \in 1..Len(mensagens) :
              /\ mensagens[k].tipo = "error"
              /\ Contains(mensagens[k].texto, arquivo_pdf.name)

(***************************************************************************)
(* Properties of main, checked under SpecMain.                            *)
(***************************************************************************)
Sentinelas == {SaldoNaoEncontrado, ErroAoLerPDF}

\* The run of the script that processed uploaded_files has just ended.
Concluiu ==
    /\ pc = "idle"
    /\ mensagens # <<>>
    /\ mensagens[Len(mensagens)].tipo = "success"

\* C3: every processed file adds at least one row, decided by the extraction
\* result: a read failure adds exactly the row (name, "N/A", "Erro ao ler
\* PDF"); a successful read with no match adds exactly the row (name, "N/A",
\* "Saldo não encontrado"); a successful read with n >= 1 matches adds
\* exactly the n rows (name, date_k, balance_k), none of them a sentinel row.
C3_LinhasPorArquivo ==
    [][(pc = "loop" /\ pc' = "loop" /\ i' = i + 1) =>
        LET file  == uploaded_files[i']
            r     == resultados_extracao'
            novas == SubSeq(lista_resultados', Len(lista_resultados) + 1,
                            Len(lista_resultados'))
        IN /\ SubSeq(lista_resultados', 1, Len(lista_resultados)) = lista_resultados
           /\ Len(novas) >= 1
           /\ Falha(file) => novas = <<Row(file.name, NA, ErroAoLerPDF)>>
           /\ ~Falha(file) =>
                 /\ r.tipo = "list"
                 /\ Len(r.lista) = Len(finditer(regex_saldo_dia, LerTexto(file).texto))
                 /\ r.lista = <<>> => novas = <<Row(file.name, NA, SaldoNaoEncontrado)>>
                 /\ r.lista # <<>> =>
                       /\ Len(novas) = Len(r.lista)
                       /\ \A k \in 1..Len(novas) :
                             /\ novas[k] = Row(file.name, r.lista[k][1], r.lista[k][2])
                             /\ novas[k].Saldo_do_Dia \notin Sentinelas
                             /\ novas[k].Data # NA
      ]_vars

\* Two files processed in one run: one with two matches (two rows), then one
\* without a match (its one sentinel row).
C3_Witness ==
    /\ pc = "loop"
    /\ i = 2
    /\ Len(lista_resultados) = 3
    /\ lista_resultados[1].Data # NA
    /\ lista_resultados[2].Data # NA
    /\ lista_resultados[3].Saldo_do_Dia = SaldoNaoEncontrado

\* The number of rows of df with the given balance text.
Quantas(df, saldo) == Cardinality({j \in 1..Len(df) : df[j].Saldo_do_Dia = saldo})

\* C4: a read failure never aborts the batch: no exception leaves
\* extrair_dados_pdf (the run never ends by an exception), the loop is at a
\* file still to process or at its end with a row for every file processed,
\* and when the run ends the report has the rows of every file of the batch,
\* each failed file giving its one "Erro ao ler PDF" row.
C4_FalhaNaoAborta ==
    /\ pc # "abortado"
    /\ resultados_extracao.tipo # "raise"
    /\ pc = "loop" => (i <= Len(uploaded_files) /\ Len(lista_resultados) >= i)
    /\ Concluiu =>
          /\ \A k \in 1..Len(uploaded_files) :
                \E j \in 1..Len(df_resultados) :
                    /\ df_resultados[j].Arquivo = uploaded_files[k].name
                    /\ Falha(uploaded_files[k]) =>
                           df_resultados[j] = Row(uploaded_files[k].name, NA, ErroAoLerPDF)
          /\ Quantas(df_resultados, ErroAoLerPDF)
                 = Cardinality({k \in 1..Len(uploaded_files) : Falha(uploaded_files[k])})
          /\ Len(df_resultados) >= Len(uploaded_files)

\* A batch whose first file cannot be read and whose second file gave its
\* rows all the same.
C4_Witness ==
    /\ Concluiu
    /\ Len(uploaded_files) = 2
    /\ Falha(uploaded_files[1])
    /\ ~Falha(uploaded_files[2])
    /\ df_resultados[1].Saldo_do_Dia = ErroAoLerPDF
    /\ df_resultados[2].Arquivo = uploaded_files[2].name
    /\ df_resultados[2].Data # NA

\* The dates occur in texto one after the other, from position de on.
RECURSIVE EmOrdemNoTexto(_, _, _)
EmOrdemNoTexto(datas, texto, de) ==
    IF datas = <<>> THEN TRUE
    ELSE LET ps == {p \in de..Len(texto) : OccursAt(Head(datas), texto, p)}
         IN /\ ps # {}
            /\ EmOrdemNoTexto(Tail(datas), texto,
                              (CHOOSE p \in ps : \A q \in ps : p <= q) + 1)

\* The rows df[a+1 .. b] are rows of file: they carry its name, and those
\* that are records carry dates that occur in its text in row order.
BlocoDoArquivo(df, a, b, file) ==
    LET bloco == SubSeq(df, a + 1, b)
        dados == SelectSeq(bloco, LAMBDA row : row.Saldo_do_Dia \notin Sentinelas)
    IN /\ \A k \in 1..Len(bloco) : bloco[k].Arquivo = file.name
       /\ dados # <<>> =>
             /\ ~Falha(file)
             /\ EmOrdemNoTexto([k \in 1..Len(dados) |-> dados[k].Data],
                               LerTexto(file).texto, 1)

\* C5: order is preserved end to end: the report is the rows of the first
\* file, then those of the second, and so on in upload order, and the rows of
\* one file are in the order of their matches in its text.
C5_OrdemPreservada ==
    Concluiu =>
        LET n == Len(uploaded_files)
        IN \E c \in [0..n -> 0..Len(df_resultados)] :
              /\ c[0] = 0
              /\ c[n] = Len(df_resultados)
              /\ \A k \in 1..n :
                    /\ c[k - 1] < c[k]
                    /\ BlocoDoArquivo(df_resultados, c[k - 1], c[k], uploaded_files[k])

\* Two matches on two pages, in page order, before the row of the next file.
C5_Witness ==
    /\ Concluiu
    /\ Len(uploaded_files) = 2
    /\ Len(df_resultados) = 3
    /\ df_resultados[1].Data = SubSeq(LinhaA, 1, 8)
    /\ df_resultados[2].Data = SubSeq(LinhaB, 1, 8)
    /\ df_resultados[2].Arquivo = uploaded_files[1].name
    /\ df_resultados[3].Arquivo = uploaded_files[2].name
    /\ uploaded_files[1].name # uploaded_files[2].name

TemAviso(msgs) == \E k \in 1..Len(msgs) : msgs[k].tipo = "warning"

\* C6: a click on "Processar Arquivos" with no file uploaded shows a warning,
\* builds no row and leaves the stored report as it was.
C6_LoteVazio ==
    [][(botao' /\ uploaded_files' = <<>>) =>
          /\ TemAviso(mensagens')
          /\ df_resultados' = df_resultados
          /\ lista_resultados' = <<>>
          /\ pc' = "idle"
      ]_vars

\* The warning is shown and the report of an earlier run is still there.
C6_Witness ==
    /\ botao
    /\ uploaded_files = <<>>
    /\ TemAviso(mensagens)
    /\ df_resultados # <<>>

\* The rows one run builds for a batch.
RECURSIVE RelatorioDe(_)
RelatorioDe(files) ==
    IF files = <<>> THEN <<>>
    ELSE linhas_do_arquivo(Head(files).name, extrair_dados_pdf(Head(files)))
         \o RelatorioDe(Tail(files))

\* C7: a run on a non-empty batch replaces the report in full: the report
\* changes only when such a run ends, and then it is exactly the rows built
\* from that batch, whatever the report was before.
C7_RelatorioSubstituido ==
    [][IF pc = "loop" /\ pc' = "idle"
       THEN df_resultados' = RelatorioDe(uploaded_files)
       ELSE df_resultados' = df_resultados
      ]_vars

\* The end of a run over a report left by an earlier run on another batch.
C7_Witness ==
    /\ pc = "loop"
    /\ i = Len(uploaded_files)
    /\ df_resultados # <<>>
    /\ lista_resultados = RelatorioDe(uploaded_files)
    /\ Len(df_resultados) > Len(lista_resultados)

====
